---- MODULE Spec2Model ----
(***************************************************************************)
(* Model of the /media-stream session of ashertenenbaum/live-ai-call.      *)
(*                                                                         *)
(* The repository holds four versions of the same server.  Each one is a  *)
(* value of the variable "variant":                                        *)
(*   "handoff"  src/index.js lines 1-191     record + Slack handoff        *)
(*   "tracker"  src/index.js lines 193-388   playback / truncation tracker *)
(*   "confirm"  src/unnamed/part_000         record, handoff on            *)
(*                                           response.completed            *)
(*   "final"    src/unnamed/part_001         tracker + handoff on every    *)
(*                                           response.completed            *)
(* One session (one accepted caller connection) is modelled.  Every event  *)
(* handler of the code is one action; an async handler that suspends at    *)
(* "await sendToSlack(...)" is split at the await: the part before it is   *)
(* the handler's action, the part after it is a continuation action.       *)
(*                                                                         *)
(* The two sockets follow the ws library: a socket on which close() has    *)
(* been called is CLOSING and still delivers the messages that arrive      *)
(* until the peer's close frame; send() on a socket that is CLOSING or     *)
(* CLOSED drops the data without throwing.  aiOut and callerOut hold what  *)
(* the last step passed to openAiWs.send and connection.send.              *)
(***************************************************************************)
EXTENDS Integers, Sequences, FiniteSets, TLC

\* ------------------------------------------------------------- bounds
\* largest media timestamp a caller frame reports
MaxTs == 2
\* largest number of keys in one JSON object produced by the AI
MaxFragKeys == 1
\* largest number of Slack calls one session of the "final" variant makes
MaxHandoffs == 2

\* ------------------------------------------------------------- values
\* JavaScript null, for strings and objects
Null == "null"
\* JavaScript null, for responseStartTimestampTwilio
NullTs == -1

Variants == {"handoff", "tracker", "confirm", "final"}
\* the variants that declare markQueue, lastAssistantItem, responseStart...
TrackerVariants == {"tracker", "final"}

Fields == {"name", "email", "problem", "time", "tcp"}
\* a key the AI may put in its JSON that is none of the five
ExtraKeys == {"note"}
AllKeys == Fields \cup ExtraKeys
FragValues == {Null, "Jo"}
StreamIds == {"S1"}
ItemIds == {"I1"}
Payloads == {"p1"}
\* the audio payloads of the caller's media frames in the tracker variant
CallerPayloads == {"p1", "p2"}

\* JavaScript truthiness of a field value (f => f)
Truthy(v) == v \notin {Null, ""}
\* JavaScript truthiness of a timestamp: null and 0 are both falsy
TruthyTs(t) == t > 0

\* the objects JSON.parse can return for a fragment: some keys, each with a value
Fragments ==
  UNION {[K -> FragValues] : K \in {S \in SUBSET AllKeys : Cardinality(S) <= MaxFragKeys}}
EmptyObj == [k \in {} |-> Null]

\* { ...userData, ...parsed }
Merge(u, parsed) ==
  [k \in (DOMAIN u) \cup (DOMAIN parsed) |->
     IF k \in DOMAIN parsed THEN parsed[k] ELSE u[k]]

\* Object.values(userData).every(f => f)
EveryValue(u) == \A k \in DOMAIN u : Truthy(u[k])
\* Object.values(userData).some(f => f)
SomeValue(u) == \E k \in DOMAIN u : Truthy(u[k])

\* the five fields of the record that hold a non-empty value
FilledFields(u) == {k \in Fields : Truthy(u[k])}

\* ------------------------------------------------------------- inputs
\* msg.delta of a response.output_text.delta event, by what the code tests:
\*   "empty"           the empty string (falsy)
\*   "plain"           text that does not start with { and end with }
\*   "braced_invalid"  {...} that JSON.parse rejects
\*   "object"          {...} that JSON.parse accepts, giving obj
\*   "split"           one of the two pieces of the text of obj cut in two: it lacks
\*                     the opening or the closing brace
TextDeltas ==
  [shape : {"empty", "plain", "braced_invalid"}, obj : {EmptyObj}]
    \cup [shape : {"object", "split"}, obj : Fragments]

\* partial.startsWith('{') && partial.endsWith('}')
Braced(d) == d.shape \in {"braced_invalid", "object"}
\* JSON.parse(partial) returns (does not throw)
Parses(d) == d.shape = "object"

\* an event handled last: its type, and the media timestamp and the audio payload it
\* carried (0 and "" if none)
Ev(type, ts) == [type |-> type, ts |-> ts, payload |-> ""]
\* an AI-side message handled last; for a text delta, payload is the shape of its text
EvMsg(msg) ==
  [type |-> msg.type, ts |-> 0,
   payload |-> IF msg.type = "response.output_text.delta" THEN msg.text.shape ELSE ""]
\* a caller frame handled last
EvFrame(f) == [type |-> f.event, ts |-> f.timestamp, payload |-> f.payload]

\* a frame given to connection.send
CallerFrame(kind, sid, payload) == [kind |-> kind, streamSid |-> sid, payload |-> payload]
\* an instruction given to openAiWs.send
AiInstr(type, item, ms, audio) ==
  [type |-> type, item_id |-> item, audio_end_ms |-> ms, audio |-> audio]
\* one call of sendToSlack: where it was made, and whether the message carries all,
\* some or none of the five fields (the others are printed as N/A, null or undefined)
SlackCall(kind, u) ==
  [kind |-> kind,
   fields |-> IF FilledFields(u) = Fields THEN "all"
              ELSE IF FilledFields(u) = {} THEN "none" ELSE "some"]

VARIABLES
  variant,                      \* which of the four servers runs
  streamSid,                    \* let streamSid
  latestMediaTimestamp,         \* let latestMediaTimestamp
  lastAssistantItem,            \* let lastAssistantItem
  markQueue,                    \* let markQueue
  responseStartTimestampTwilio, \* let responseStartTimestampTwilio
  userData,                     \* let userData
  allConfirmed,                 \* let allConfirmed
  aiReady,                      \* openAiWs.readyState
  connState,                    \* readyState of the caller connection
  pendingSlack,                 \* message handlers suspended at await sendToSlack
  closePending,                 \* the close handler is suspended at await sendToSlack
  closeTimers,                  \* setTimeout(() => connection.close(), 2000) pending
  initTimer,                    \* setTimeout(initializeSession, 100) pending
  slackLog,                     \* the calls of sendToSlack made so far
  farewells,                    \* farewell payloads given to connection.send so far
  lastEvent,                    \* the event handled by the last step
  aiOut,                        \* what the last step gave to openAiWs.send
  callerOut                     \* what the last step gave to connection.send

vars == <<variant, streamSid, latestMediaTimestamp, lastAssistantItem, markQueue,
          responseStartTimestampTwilio, userData, allConfirmed, aiReady, connState,
          pendingSlack, closePending, closeTimers, initTimer, slackLog, farewells,
          lastEvent, aiOut, callerOut>>

trackerVars == <<latestMediaTimestamp, lastAssistantItem, markQueue,
                 responseStartTimestampTwilio>>
recordVars == <<userData, allConfirmed>>
asyncVars == <<pendingSlack, closePending, closeTimers, initTimer, slackLog, farewells>>

\* the state after fastify.get('/media-stream', ...) has run for a new connection
Init ==
  /\ variant \in Variants
  /\ streamSid = Null
  /\ latestMediaTimestamp = 0
  /\ lastAssistantItem = Null
  /\ markQueue = <<>>
  /\ responseStartTimestampTwilio = NullTs
  /\ userData = [k \in Fields |-> Null]
  /\ allConfirmed = FALSE
  /\ aiReady = "CONNECTING"
  /\ connState = "OPEN"
  /\ pendingSlack = 0
  /\ closePending = FALSE
  /\ closeTimers = 0
  /\ initTimer = FALSE
  /\ slackLog = <<>>
  /\ farewells = 0
  /\ lastEvent = Ev("connect", 0)
  /\ aiOut = <<>>
  /\ callerOut = <<>>

\* AI-side messages are delivered while the socket is open or closing
AiDelivers == aiReady \in {"OPEN", "CLOSING"}
\* caller-side frames are delivered while the connection is open or closing
CallerDelivers == connState \in {"OPEN", "CLOSING"}


\* msg of an AI-side event, by the fields the handlers read
AiMsg(type, audio, item, text) ==
  [type |-> type, audio |-> audio, item_id |-> item, text |-> text]
NoText == [shape |-> "empty", obj |-> EmptyObj]

\* response.output_audio.delta: msg.delta (possibly empty), msg.item_id (possibly absent)
AudioDeltaMsgs ==
  {AiMsg("response.output_audio.delta", a, i, NoText) :
     a \in Payloads \cup {""}, i \in ItemIds \cup {Null}}
\* response.output_text.delta: msg.delta is the text fragment
TextDeltaMsgs ==
  {AiMsg("response.output_text.delta", "", Null, d) : d \in TextDeltas}
\* response.completed: msg.content, by what the "final" variant does with it:
\*   "empty"           msg.content is absent (falsy)
\*   "plain"           content[0].text is absent, so '{}' is parsed
\*   "braced_invalid"  content[0].text is rejected by JSON.parse
\*   "object"          content[0].text parses to obj
CompletedMsgs ==
  {AiMsg("response.completed", "", Null, d) : d \in TextDeltas}
\* response.completed as the variants see it that do not read msg.content
CompletedMsg == AiMsg("response.completed", "", Null, NoText)
SpeechStartedMsg == AiMsg("input_audio_buffer.speech_started", "", Null, NoText)
\* a type no branch of any variant names (logged only), and data that JSON.parse rejects
OtherMsgs ==
  {AiMsg("session.updated", "", Null, NoText), AiMsg("unparseable", "", Null, NoText)}

\* caller-side frames, by the fields the handlers read
Frame(event, ts, sid, payload) ==
  [event |-> event, timestamp |-> ts, streamSid |-> sid, payload |-> payload]
MediaFrames == {Frame("media", t, Null, p) : t \in 0..MaxTs, p \in Payloads}
\* the media frames of the tracker variant: any timestamp, one of two payloads
TrackerMediaFrames ==
  {Frame("media", t, Null, p) : t \in 0..MaxTs, p \in CallerPayloads}
StartFrames == {Frame("start", 0, s, "") : s \in StreamIds}
MarkFrame == Frame("mark", 0, Null, "")
\* a tag no case of any variant names (stop), and a frame JSON.parse rejects
OtherFrames == {Frame("stop", 0, Null, ""), Frame("unparseable", 0, Null, "")}

\* ------------------------------------------------- pieces of the handlers
\* an extraction that also merges the object a split piece belongs to
ExtractDeltaCarry(u, d) ==
  IF d.shape \in {"object", "split"} THEN Merge(u, d.obj) ELSE u

\* the text-delta block: trim, test the braces, parse, merge; errors are swallowed
ExtractDelta(u, d) ==
  IF d.shape # "empty" /\ Braced(d) /\ Parses(d) THEN Merge(u, d.obj) ELSE u

\* const allFilled = Object.values(userData).every(f => f)
AllFilled(u) == EveryValue(u)

\* !allConfirmed && Object.values(userData).some(f => f)
PartialGuard(flag, u) == ~flag /\ SomeValue(u)

\* the guard with the marker-queue test left out
TruncateGuardNoQueue(queue, start) == TruthyTs(start)

\* markQueue.length > 0 && responseStartTimestampTwilio
TruncateGuard(queue, start) == Len(queue) > 0 /\ TruthyTs(start)

\* const elapsed = latestMediaTimestamp - responseStartTimestampTwilio
Elapsed(latest, start) == latest - start

\* if (!responseStartTimestampTwilio) responseStartTimestampTwilio = latestMediaTimestamp
RecordStart(start, latest) == IF ~TruthyTs(start) THEN latest ELSE start

\* if (msg.item_id) lastAssistantItem = msg.item_id
RecordItem(item, msgItem) == IF Truthy(msgItem) THEN msgItem ELSE item

\* case 'media': latestMediaTimestamp = data.media.timestamp
MediaTimestamp(latest, ts) == ts

\* a start case that leaves the timestamp alone
StartTimestampKept(latest) == latest

\* case 'start': latestMediaTimestamp = 0
StartTimestamp(latest) == 0

\* a mark case that enqueues a marker
MarkPush(queue) == Append(queue, "mark")

\* if (markQueue.length > 0) markQueue.shift()
MarkShift(queue) == IF Len(queue) > 0 THEN Tail(queue) ELSE queue

\* a forwarding that does not test the readiness of the AI socket
ForwardMediaAlways(ready, payload) ==
  <<AiInstr("input_audio_buffer.append", Null, 0, payload)>>

\* if (openAiWs.readyState === WebSocket.OPEN) openAiWs.send(append)
ForwardMedia(ready, payload) ==
  IF ready = "OPEN" THEN <<AiInstr("input_audio_buffer.append", Null, 0, payload)>>
  ELSE <<>>

\* if (openAiWs.readyState === WebSocket.OPEN) openAiWs.close()
CloseAi(ready) == IF ready = "OPEN" THEN "CLOSING" ELSE ready

\* connection.send({ event: 'media', streamSid, media: { payload: msg.delta } })
AudioFrames(msg, sid) ==
  IF msg.type = "response.output_audio.delta" /\ msg.audio # ""
  THEN <<CallerFrame("audio", sid, msg.audio)>> ELSE <<>>

\* the farewell frame: { event: 'media', media: { payload: base64(farewell) } }
FarewellFrame == CallerFrame("farewell", Null, "farewell")

\* ---------------------------------------------------- "handoff" variant
\* openAiWs.on('message', async (data) => ...), up to await sendToSlack
AiMessageHandoff ==
  /\ variant = "handoff"
  /\ AiDelivers
  /\ \E msg \in {m \in AudioDeltaMsgs : m.item_id = Null} \cup TextDeltaMsgs
                  \cup OtherMsgs :
       LET merged == IF msg.type = "response.output_text.delta"
                     THEN ExtractDelta(userData, msg.text) ELSE userData
           completes == msg.type # "unparseable" /\ ~allConfirmed /\ AllFilled(merged)
       IN /\ callerOut' = AudioFrames(msg, streamSid)
          /\ userData' = merged
          /\ allConfirmed' = (allConfirmed \/ completes)
          /\ slackLog' = IF completes THEN Append(slackLog, SlackCall("complete", merged))
                         ELSE slackLog
          /\ pendingSlack' = IF completes THEN pendingSlack + 1 ELSE pendingSlack
          /\ lastEvent' = EvMsg(msg)
  /\ aiOut' = <<>>
  /\ UNCHANGED <<variant, streamSid, trackerVars, aiReady, connState, closePending,
                 closeTimers, initTimer, farewells>>

\* connection.on('message', (msg) => ...)
CallerMessageHandoff ==
  /\ variant = "handoff"
  /\ CallerDelivers
  /\ \E f \in {m \in MediaFrames : m.timestamp = 0} \cup StartFrames \cup OtherFrames :
       /\ aiOut' = IF f.event = "media" THEN ForwardMedia(aiReady, f.payload) ELSE <<>>
       /\ streamSid' = IF f.event = "start" THEN f.streamSid ELSE streamSid
       /\ lastEvent' = Ev(f.event, 0)
  /\ callerOut' = <<>>
  /\ UNCHANGED <<variant, trackerVars, recordVars, aiReady, connState, asyncVars>>

\* connection.on('close', async () => ...), up to await sendToSlack (when it is reached)
ConnCloseHandoff ==
  /\ variant = "handoff"
  /\ CallerDelivers
  /\ connState' = "CLOSED"
  /\ IF PartialGuard(allConfirmed, userData)
     THEN /\ slackLog' = Append(slackLog, SlackCall("partial", userData))
          /\ closePending' = TRUE
          /\ aiReady' = aiReady
     ELSE /\ aiReady' = CloseAi(aiReady)
          /\ UNCHANGED <<slackLog, closePending>>
  /\ lastEvent' = Ev("close", 0)
  /\ aiOut' = <<>>
  /\ callerOut' = <<>>
  /\ UNCHANGED <<variant, streamSid, trackerVars, recordVars, pendingSlack, closeTimers,
                 initTimer, farewells>>

\* the close handler after await sendToSlack: close the AI socket if open
SlackSettlesClose ==
  /\ closePending
  /\ closePending' = FALSE
  /\ aiReady' = CloseAi(aiReady)
  /\ lastEvent' = Ev("slack_settled_close", 0)
  /\ aiOut' = <<>>
  /\ callerOut' = <<>>
  /\ UNCHANGED <<variant, streamSid, trackerVars, recordVars, connState, pendingSlack,
                 closeTimers, initTimer, slackLog, farewells>>

\* ---------------------------------------------------- "tracker" variant
\* the audio-delta and speech-started branches, the same text in both tracker variants
\* (src/index.js 309-338, src/unnamed/part_001 146-156 and 185-202)
TrackerBranches(msg) ==
  LET audio == msg.type = "response.output_audio.delta" /\ msg.audio # ""
      start1 == IF audio THEN RecordStart(responseStartTimestampTwilio, latestMediaTimestamp)
                ELSE responseStartTimestampTwilio
      item1 == IF audio THEN RecordItem(lastAssistantItem, msg.item_id)
               ELSE lastAssistantItem
      speech == msg.type = "input_audio_buffer.speech_started"
      guard == speech /\ TruncateGuard(markQueue, start1)
  IN /\ callerOut' = AudioFrames(msg, streamSid)
     /\ aiOut' = IF guard /\ Truthy(item1)
                 THEN <<AiInstr("conversation.item.truncate", item1,
                                Elapsed(latestMediaTimestamp, start1), "")>>
                 ELSE <<>>
     /\ markQueue' = IF guard THEN <<>> ELSE markQueue
     /\ lastAssistantItem' = IF guard THEN Null ELSE item1
     /\ responseStartTimestampTwilio' = IF guard THEN NullTs ELSE start1
     /\ UNCHANGED latestMediaTimestamp

\* openAiWs.on('message', (data) => ...)
AiMessageTracker ==
  /\ variant = "tracker"
  /\ AiDelivers
  /\ \E msg \in AudioDeltaMsgs \cup {SpeechStartedMsg} \cup OtherMsgs :
       /\ TrackerBranches(msg)
       /\ lastEvent' = Ev(msg.type, 0)
  /\ UNCHANGED <<variant, streamSid, recordVars, aiReady, connState, asyncVars>>

\* a switch whose default case runs the start case
FrameCaseDefaultStart(f) ==
  IF f.event \in {"media", "mark"} THEN f.event ELSE "start"

\* const data = JSON.parse(msg); switch (data.event): the case that runs, "default"
\* for a tag with no case of its own, "none" when JSON.parse throws
FrameCase(f) ==
  IF f.event \in {"media", "start", "mark"} THEN f.event
  ELSE IF f.event = "unparseable" THEN "none" ELSE "default"

\* connection.on('message', (msg) => ...), the same text in both tracker variants
\* (src/index.js 344-369, src/unnamed/part_001 209-234)
TrackerFrame(f) ==
  /\ aiOut' = IF FrameCase(f) = "media" THEN ForwardMedia(aiReady, f.payload) ELSE <<>>
  /\ latestMediaTimestamp' =
       CASE FrameCase(f) = "media" -> MediaTimestamp(latestMediaTimestamp, f.timestamp)
         [] FrameCase(f) = "start" -> StartTimestamp(latestMediaTimestamp)
         [] OTHER -> latestMediaTimestamp
  /\ streamSid' = IF FrameCase(f) = "start" THEN f.streamSid ELSE streamSid
  /\ responseStartTimestampTwilio' =
       IF FrameCase(f) = "start" THEN NullTs ELSE responseStartTimestampTwilio
  /\ markQueue' = IF FrameCase(f) = "mark" THEN MarkShift(markQueue) ELSE markQueue
  /\ lastEvent' = EvFrame(f)
  /\ callerOut' = <<>>
  /\ UNCHANGED lastAssistantItem

CallerMessageTracker ==
  /\ variant = "tracker"
  /\ CallerDelivers
  /\ \E f \in TrackerMediaFrames \cup StartFrames \cup {MarkFrame} \cup OtherFrames :
       TrackerFrame(f)
  /\ UNCHANGED <<variant, recordVars, aiReady, connState, asyncVars>>

\* connection.on('close', () => ...) of the variants without a partial handoff
ConnClose ==
  /\ variant \in {"tracker", "confirm", "final"}
  /\ CallerDelivers
  /\ connState' = "CLOSED"
  /\ aiReady' = CloseAi(aiReady)
  /\ lastEvent' = Ev("close", 0)
  /\ aiOut' = <<>>
  /\ callerOut' = <<>>
  /\ UNCHANGED <<variant, streamSid, trackerVars, recordVars, asyncVars>>

\* ---------------------------------------------------- "confirm" variant
\* openAiWs.on('message', async (data) => ...), up to await sendToSlack
AiMessageConfirm ==
  /\ variant = "confirm"
  /\ AiDelivers
  /\ \E msg \in {m \in AudioDeltaMsgs : m.item_id = Null} \cup TextDeltaMsgs
                  \cup {CompletedMsg} \cup OtherMsgs :
       LET merged == IF msg.type = "response.output_text.delta"
                     THEN ExtractDelta(userData, msg.text) ELSE userData
           completes == /\ msg.type = "response.completed"
                        /\ ~allConfirmed
                        /\ AllFilled(merged)
       IN /\ callerOut' = AudioFrames(msg, streamSid)
          /\ userData' = merged
          /\ allConfirmed' = (allConfirmed \/ completes)
          /\ slackLog' = IF completes THEN Append(slackLog, SlackCall("complete", merged))
                         ELSE slackLog
          /\ pendingSlack' = IF completes THEN pendingSlack + 1 ELSE pendingSlack
          /\ lastEvent' = Ev(msg.type, 0)
  /\ aiOut' = <<>>
  /\ UNCHANGED <<variant, streamSid, trackerVars, aiReady, connState, closePending,
                 closeTimers, initTimer, farewells>>

\* connection.on('message', (msg) => ...): media records the timestamp, start only
\* captures the stream id
CallerMessageConfirm ==
  /\ variant = "confirm"
  /\ CallerDelivers
  /\ \E f \in MediaFrames \cup StartFrames \cup OtherFrames :
       /\ aiOut' = IF f.event = "media" THEN ForwardMedia(aiReady, f.payload) ELSE <<>>
       /\ latestMediaTimestamp' =
            IF f.event = "media" THEN MediaTimestamp(latestMediaTimestamp, f.timestamp)
            ELSE latestMediaTimestamp
       /\ streamSid' = IF f.event = "start" THEN f.streamSid ELSE streamSid
       /\ lastEvent' = Ev(f.event, f.timestamp)
  /\ callerOut' = <<>>
  /\ UNCHANGED <<variant, lastAssistantItem, markQueue, responseStartTimestampTwilio,
                 recordVars, aiReady, connState, asyncVars>>

\* ------------------------------------------------------ "final" variant
\* JSON.parse(msg.content[0]?.text || '{}') returns (does not throw)
ContentParses(c) == c.shape \in {"plain", "object"}

\* openAiWs.on('message', async (data) => ...), up to await sendToSlack.
\* A response.completed event with content merges it and calls sendToSlack with
\* no test of the record and no flag.
AiMessageFinal ==
  /\ variant = "final"
  /\ AiDelivers
  /\ \E msg \in AudioDeltaMsgs \cup CompletedMsgs \cup {SpeechStartedMsg} \cup OtherMsgs :
       LET hands == /\ msg.type = "response.completed"
                    /\ msg.text.shape # "empty"
                    /\ ContentParses(msg.text)
           merged == IF hands THEN Merge(userData, msg.text.obj) ELSE userData
       IN /\ hands => Len(slackLog) < MaxHandoffs
          /\ TrackerBranches(msg)
          /\ userData' = merged
          /\ slackLog' = IF hands THEN Append(slackLog, SlackCall("terminal", merged))
                         ELSE slackLog
          /\ pendingSlack' = IF hands THEN pendingSlack + 1 ELSE pendingSlack
          /\ lastEvent' = Ev(msg.type, 0)
  /\ UNCHANGED <<variant, streamSid, allConfirmed, aiReady, connState, closePending,
                 closeTimers, initTimer, farewells>>

CallerMessageFinal ==
  /\ variant = "final"
  /\ CallerDelivers
  /\ \E f \in MediaFrames \cup StartFrames \cup {MarkFrame} \cup OtherFrames :
       TrackerFrame(f)
  /\ UNCHANGED <<variant, recordVars, aiReady, connState, asyncVars>>

\* ------------------------------------------------ shared by the variants
\* a message handler after await sendToSlack: farewell, then the 2000 ms timer.
\* connection.send on a connection that is no longer open is dropped by ws
\* without throwing, so the timer is set in every case.
SlackSettles ==
  /\ pendingSlack > 0
  /\ pendingSlack' = pendingSlack - 1
  /\ callerOut' = <<FarewellFrame>>
  /\ farewells' = farewells + 1
  /\ closeTimers' = closeTimers + 1
  /\ lastEvent' = Ev("slack_settled", 0)
  /\ aiOut' = <<>>
  /\ UNCHANGED <<variant, streamSid, trackerVars, recordVars, aiReady, connState,
                 closePending, initTimer, slackLog>>

\* setTimeout(() => connection.close(), 2000) fires
CloseTimerFires ==
  /\ closeTimers > 0
  /\ closeTimers' = closeTimers - 1
  /\ connState' = IF connState = "OPEN" THEN "CLOSING" ELSE connState
  /\ lastEvent' = Ev("close_timer", 0)
  /\ aiOut' = <<>>
  /\ callerOut' = <<>>
  /\ UNCHANGED <<variant, streamSid, trackerVars, recordVars, aiReady, pendingSlack,
                 closePending, initTimer, slackLog, farewells>>

\* openAiWs.on('open'): the record variants call initializeSession at once, the
\* tracker variants set a 100 ms timer for it
AiOpen ==
  /\ aiReady = "CONNECTING"
  /\ aiReady' = "OPEN"
  /\ IF variant \in TrackerVariants
     THEN initTimer' = TRUE /\ aiOut' = <<>>
     ELSE initTimer' = initTimer /\ aiOut' = <<AiInstr("session.update", Null, 0, "")>>
  /\ lastEvent' = Ev("ai_open", 0)
  /\ callerOut' = <<>>
  /\ UNCHANGED <<variant, streamSid, trackerVars, recordVars, connState, pendingSlack,
                 closePending, closeTimers, slackLog, farewells>>

\* setTimeout(initializeSession, 100) fires: openAiWs.send(session.update)
InitializeSession ==
  /\ initTimer
  /\ initTimer' = FALSE
  /\ aiOut' = <<AiInstr("session.update", Null, 0, "")>>
  /\ lastEvent' = Ev("init_timer", 0)
  /\ callerOut' = <<>>
  /\ UNCHANGED <<variant, streamSid, trackerVars, recordVars, aiReady, connState,
                 pendingSlack, closePending, closeTimers, slackLog, farewells>>

\* openAiWs.on('close') / on('error'): logged only
AiClosed ==
  /\ aiReady # "CLOSED"
  /\ aiReady' = "CLOSED"
  /\ lastEvent' = Ev("ai_close", 0)
  /\ aiOut' = <<>>
  /\ callerOut' = <<>>
  /\ UNCHANGED <<variant, streamSid, trackerVars, recordVars, connState, asyncVars>>

Shared == CloseTimerFires \/ AiOpen \/ AiClosed

NextHandoff ==
  \/ AiMessageHandoff \/ CallerMessageHandoff \/ ConnCloseHandoff \/ SlackSettlesClose
  \/ SlackSettles \/ Shared

NextTracker ==
  \/ AiMessageTracker \/ CallerMessageTracker \/ ConnClose \/ AiOpen \/ InitializeSession
  \/ AiClosed

NextConfirm == AiMessageConfirm \/ CallerMessageConfirm \/ ConnClose \/ SlackSettles \/ Shared

NextFinal ==
  \/ AiMessageFinal \/ CallerMessageFinal \/ ConnClose \/ SlackSettles \/ InitializeSession
  \/ Shared

\* src/index.js lines 1-191
InitHandoff == Init /\ variant = "handoff"
SpecHandoff == InitHandoff /\ [][NextHandoff]_vars
\* src/index.js lines 193-388
InitTracker == Init /\ variant = "tracker"
SpecTracker == InitTracker /\ [][NextTracker]_vars
\* src/unnamed/part_000
InitConfirm == Init /\ variant = "confirm"
SpecConfirm == InitConfirm /\ [][NextConfirm]_vars
\* src/unnamed/part_001
InitFinal == Init /\ variant = "final"
SpecFinal == InitFinal /\ [][NextFinal]_vars


\* ================================================================ claims
HasType(out, type) == \E i \in 1..Len(out) : out[i].type = type
CallsOfKind(kind) == {i \in 1..Len(slackLog) : slackLog[i].kind = kind}
AllFive(u) == FilledFields(u) = Fields

\* ---- C1: the Structured Record is handed to the notification sink at most once
\* per session, whatever the interleaving of AI events and the caller close (a partial
\* handoff made at disconnect is not followed by a completion handoff).
C1_AtMostOneHandoff == variant = "handoff" => Len(slackLog) <= 1

C4_InterruptionTruncates ==
  [][ ( /\ variant = "tracker"
        /\ lastEvent.type = "response.output_audio.delta"
        /\ lastAssistantItem = "I1"
        /\ TruthyTs(responseStartTimestampTwilio)
        /\ lastEvent'.type = "input_audio_buffer.speech_started" )
      => aiOut' = <<AiInstr("conversation.item.truncate", "I1",
                            latestMediaTimestamp - responseStartTimestampTwilio, "")>>
    ]_vars

\* ---- C5 (as claimed): for every sequence of caller frames the cumulative timestamp
\* never decreases between two start events, and it is reset to 0 exactly when a
\* start event is processed.
C5_MonotoneForAllFrames ==
  [][ /\ lastEvent'.type = "start" => latestMediaTimestamp' = 0
      /\ lastEvent'.type # "start" => latestMediaTimestamp' >= latestMediaTimestamp
    ]_vars

\* ---- C5 (amended): a start event sets the cumulative timestamp to 0, a media frame
\* sets it to the timestamp the frame reports (so it does not decrease when the
\* reported timestamps do not), and no other event changes it.
C5_TimestampFollowsFrames ==
  [][ /\ lastEvent'.type = "start" => latestMediaTimestamp' = 0
      /\ lastEvent'.type = "media" => latestMediaTimestamp' = lastEvent'.ts
      /\ (lastEvent'.type = "media" /\ lastEvent'.ts >= latestMediaTimestamp)
           => latestMediaTimestamp' >= latestMediaTimestamp
      /\ lastEvent'.type \notin {"start", "media"}
           => latestMediaTimestamp' = latestMediaTimestamp
    ]_vars

\* a start event has been processed in a stream whose AI utterance was playing: the
\* timestamp is 0 again
C5_Witness ==
  /\ variant = "tracker"
  /\ lastEvent.type = "start"
  /\ lastAssistantItem = "I1"
  /\ latestMediaTimestamp = 0

\* ---- C6: the record is treated as complete (flag set, completion handoff made) if
\* and only if all five fields hold non-empty values, whatever else was merged.
C6_CompleteIffAllFive ==
  variant = "handoff" =>
    /\ AllFive(userData) => allConfirmed
    /\ allConfirmed => \E i \in CallsOfKind("complete") : slackLog[i].fields = "all"

\* ---- C7: once the fragments received while the caller is connected have made all
\* five fields non-empty, the sink has received exactly one call, carrying all five
\* values (the farewell and the delayed close follow it).
C7_CompletionScenario ==
  (variant = "handoff" /\ connState = "OPEN" /\ AllFive(userData)) =>
    /\ Len(slackLog) = 1
    /\ slackLog[1].fields = "all"
    /\ pendingSlack + farewells = 1

\* ---- C8: at a caller disconnect with the completion flag false, a partial
\* submission is made if and only if at least one of the five fields is set, and it
\* is never followed by a farewell or a scheduled close.
C8_PartialIffSomeField ==
  variant = "handoff" =>
    /\ (lastEvent.type = "close" /\ ~allConfirmed) =>
         Cardinality(CallsOfKind("partial")) =
           (IF FilledFields(userData) # {} THEN 1 ELSE 0)
    /\ CallsOfKind("partial") # {} =>
         (pendingSlack = 0 /\ farewells = 0 /\ closeTimers = 0)

\* ---- C9: the caller connection never ends up closed with all five fields set and
\* no handoff made, with or without a terminal event after the last field.
C9_CompleteRecordHandedOff ==
  (variant = "confirm" /\ connState = "CLOSED" /\ AllFive(userData)) => Len(slackLog) >= 1

\* ---- C10: in the terminal-event variant, once a handoff has been made, a later
\* terminal event is a no-op: no further notification call (and so no further
\* farewell or scheduled close).
C10_TerminalIdempotent ==
  [][ ( /\ variant = "final"
        /\ Len(slackLog) >= 1
        /\ lastEvent'.type = "response.completed" )
      => (slackLog' = slackLog /\ pendingSlack' = pendingSlack) ]_vars

\* ---- C11: the caller's close handler requests the close of an open AI connection
\* in the same step: the step that handles the caller close never leaves the AI
\* connection open (so no AI message is handled in between).
C11_CloseIsSynchronous ==
  [][ (lastEvent'.type = "close" /\ aiReady = "OPEN") => aiReady' # "OPEN" ]_vars

\* ---- C12: a media frame handled while the AI connection is open gives exactly one
\* append instruction with the frame's payload; handled while it is not open it gives
\* no instruction, changes neither connection, and still records the timestamp; and
\* no step other than a media frame gives an append instruction (nothing is buffered).
C12_MediaForwarding ==
  [][ /\ lastEvent'.type = "media" =>
           /\ aiOut' = IF aiReady = "OPEN"
                       THEN <<AiInstr("input_audio_buffer.append", Null, 0,
                                      lastEvent'.payload)>>
                       ELSE <<>>
           /\ latestMediaTimestamp' = lastEvent'.ts
           /\ aiReady' = aiReady
           /\ connState' = connState
      /\ lastEvent'.type # "media" => ~HasType(aiOut', "input_audio_buffer.append")
    ]_vars

\* a media frame with payload p2 was handled after the AI connection had closed:
\* nothing was sent, the caller is still connected, the timestamp was recorded
C12_Witness ==
  /\ variant = "tracker"
  /\ lastEvent.type = "media"
  /\ lastEvent.payload = "p2"
  /\ lastEvent.ts > 0
  /\ aiReady = "CLOSED"
  /\ aiOut = <<>>
  /\ connState = "OPEN"
  /\ latestMediaTimestamp = lastEvent.ts

\* ---- C14: right after a caller start event is processed the playback state is
\* empty: playback-start timestamp unset, active item id unset, marker queue empty,
\* cumulative timestamp 0.
C14_StartEmptiesPlayback ==
  lastEvent.type = "start" =>
    /\ responseStartTimestampTwilio = NullTs
    /\ lastAssistantItem = Null
    /\ markQueue = <<>>
    /\ latestMediaTimestamp = 0

\* ---- C16: an audio delta that arrives while the playback-start timestamp is unset
\* records the cumulative timestamp of that moment, and an audio delta that arrives
\* while it is recorded (whatever value was recorded, 0 included) leaves it alone.
C16_StartRecordedOnce ==
  [][ (lastEvent'.type = "response.output_audio.delta" /\ callerOut' # <<>>) =>
        /\ responseStartTimestampTwilio = NullTs =>
             responseStartTimestampTwilio' = latestMediaTimestamp
        /\ responseStartTimestampTwilio # NullTs =>
             responseStartTimestampTwilio' = responseStartTimestampTwilio
    ]_vars

\* ---- C17: in every reachable state the record has exactly the five keys name,
\* email, problem, time and tcp (unrecognized keys of a fragment are not kept).
C17_ExactlyFiveKeys == DOMAIN userData = Fields

\* ---- C18: no step turns a field that holds a non-empty value into an empty one.
C18_SetFieldsStaySet ==
  [][ \A k \in Fields : Truthy(userData[k]) => Truthy(userData'[k]) ]_vars

\* ---- C19: the step in which the record becomes complete sends the farewell and
\* schedules the close itself, without waiting for the notification request.
C19_FarewellNotBlocked ==
  [][ (~allConfirmed /\ allConfirmed') =>
        /\ callerOut' = <<FarewellFrame>>
        /\ closeTimers' = closeTimers + 1
    ]_vars

\* ---- C20: in the terminal-event variant every notification call (and so every
\* farewell and scheduled close that follows one) is made with all five fields set.
C20_HandoffOnlyWhenComplete ==
  variant = "final" => \A i \in 1..Len(slackLog) : slackLog[i].fields = "all"

\* ---- C21: a caller frame that cannot be parsed, or whose tag has no case (stop),
\* changes no part of the session state (stream id, cumulative timestamp, playback
\* state, record, completion flag), sends nothing on either connection and closes
\* neither connection.
C21_IgnoredFrames ==
  [][ lastEvent'.type \in {"stop", "unparseable"} =>
        /\ UNCHANGED <<streamSid, trackerVars, recordVars, aiReady, connState>>
        /\ aiOut' = <<>>
        /\ callerOut' = <<>>
    ]_vars

\* a stop frame was handled in the middle of a stream: stream id captured, caller
\* audio received, an AI utterance playing; all of it is still there
C21_Witness ==
  /\ variant = "tracker"
  /\ lastEvent.type = "stop"
  /\ streamSid = "S1"
  /\ latestMediaTimestamp > 0
  /\ responseStartTimestampTwilio > 0
  /\ lastAssistantItem = "I1"
  /\ aiReady = "OPEN"
  /\ connState = "OPEN"

\* ---- C22: a text fragment that is not enclosed in braces, or that JSON.parse
\* rejects, leaves the record unchanged; this includes each piece of a JSON object
\* split over two fragments (nothing is carried from one fragment to the next).
C22_BadFragmentDiscarded ==
  [][ ( /\ lastEvent'.type = "response.output_text.delta"
        /\ lastEvent'.payload \in {"plain", "braced_invalid", "split"} )
      => userData' = userData ]_vars

\* a piece of a split object was handled after a fragment had been merged: the
\* record still holds what was merged before, and nothing more
C22_Witness ==
  /\ variant = "handoff"
  /\ lastEvent.type = "response.output_text.delta"
  /\ lastEvent.payload = "split"
  /\ userData["name"] = "Jo"
  /\ FilledFields(userData) = {"name"}

\* ---- C23: every AI audio frame given to the caller connection carries the stream
\* identifier of a caller start event, never the absent (null) identifier, whatever
\* the order of the first audio delta and the start event.
C23_AudioCarriesStreamId ==
  \A i \in 1..Len(callerOut) :
    callerOut[i].kind = "audio" => callerOut[i].streamSid \in StreamIds

\* ---- C24: the marker queue is empty in every state; so a mark frame changes
\* nothing and sends nothing, and at every speech-started event the truncation guard
\* is false: no truncate is sent and the playback state is kept.
C24_QueueAlwaysEmpty ==
  [][ /\ markQueue = <<>>
      /\ markQueue' = <<>>
      /\ lastEvent'.type = "mark" =>
           /\ UNCHANGED <<streamSid, trackerVars, aiReady, connState>>
           /\ aiOut' = <<>>
           /\ callerOut' = <<>>
      /\ lastEvent'.type = "input_audio_buffer.speech_started" =>
           /\ ~TruncateGuard(markQueue, responseStartTimestampTwilio)
           /\ aiOut' = <<>>
           /\ UNCHANGED trackerVars
    ]_vars

\* a mark frame was handled while an AI utterance was playing: the queue is empty
C24_Witness ==
  /\ variant = "tracker"
  /\ lastEvent.type = "mark"
  /\ responseStartTimestampTwilio > 0
  /\ lastAssistantItem = "I1"
  /\ markQueue = <<>>

\* ---- C25: once the caller connection has closed, no completion handoff is started
\* and no farewell is given to the caller connection.
C25_NothingAfterClose ==
  [][ connState = "CLOSED" =>
        /\ CallsOfKind("complete")' = CallsOfKind("complete")
        /\ farewells' = farewells
    ]_vars

====
